---------------------------- MODULE Spec2Model ----------------------------
(***************************************************************************)
(* Vector2.js (rawify/Vector2.js): a 2D vector value type.                 *)
(*                                                                         *)
(* Two builds of the library are in the repository: the current source     *)
(* src/src/vector2.js (v0.0.5, with the in-place `$` operations) and an    *)
(* older build src/unnamed/part_000.  Where the two differ (the            *)
(* constructor, normalize) both are modelled; the older one carries the    *)
(* suffix _000.                                                            *)
(*                                                                         *)
(* NUMBERS.  JavaScript numbers are IEEE-754 binary64.  The model keeps    *)
(* the structure of that format (round to nearest, ties to even; gradual   *)
(* underflow; overflow to Infinity; NaN) with a significand of P bits and  *)
(* exponents up to Emax instead of 53 bits and 1023.  A finite number is   *)
(* an integer count of the least subnormal, 2^-F.  Signed zero is not      *)
(* modelled: -0 and +0 are one value.                                      *)
(***************************************************************************)
EXTENDS Integers, Sequences, FiniteSets

(***************************************************************************)
(* The number format                                                       *)
(***************************************************************************)
\* Significand bits (binary64: 53).
P == 7
\* Largest exponent: every finite number is below 2^(Emax+1) (binary64: 1023).
Emax == 4
\* The least normal number is 2^(1-Emax), the least subnormal 2^-F.
F == P + Emax - 2
\* 1.0 in units of 2^-F.
One == 2^F
\* The largest finite number, (2 - 2^(1-P)) * 2^Emax, in units.
MaxFinite == (2^P - 1) * 2^(Emax - P + 1 + F)

\* A JavaScript value: a tag and a payload.
Val(t, v) == [t |-> t, v |-> v]
Num(n) == Val("number", n)
NaN == Val("NaN", 0)
Inf(s) == Val("Infinity", s)
Undefined == Val("undefined", 0)
Null == Val("null", 0)

IsFinite(a) == a.t = "number"
IsNumber(a) == a.t \in {"number", "NaN", "Infinity"}

Abs(n) == IF n < 0 THEN -n ELSE n
Sign(n) == IF n < 0 THEN -1 ELSE 1
\* The sign of a numeric value that is not NaN.
SignOf(a) == IF a.t = "Infinity" THEN a.v ELSE Sign(a.v)

\* Number of bits of n >= 0.
BitLen(n) == CHOOSE b \in 0..30 : n < 2^b /\ (b = 0 \/ 2^(b-1) <= n)

\* Trailing zero bits of n > 0, at most cap.
RECURSIVE TrailingZeros(_, _)
TrailingZeros(n, cap) ==
  IF cap = 0 \/ n % 2 = 1 THEN 0 ELSE 1 + TrailingZeros(n \div 2, cap - 1)

\* The rational s * p / q (p >= 0, q > 0, in units of 2^-F) rounded to the
\* format: to nearest, ties to even, overflow to Infinity.
RoundRat(s, p, q) ==
  LET fl  == p \div q
      ulp == IF BitLen(fl) > P THEN 2^(BitLen(fl) - P) ELSE 1
      d   == q * ulp
      m   == p \div d
      r   == p % d
      up  == 2 * r > d \/ (2 * r = d /\ m % 2 = 1)
      n   == (IF up THEN m + 1 ELSE m) * ulp
  IN  IF n > MaxFinite THEN Inf(s) ELSE Num(s * n)

\* a + b
fadd(a, b) ==
  IF ~IsNumber(a) \/ ~IsNumber(b) \/ a.t = "NaN" \/ b.t = "NaN" THEN NaN
  ELSE IF a.t = "Infinity" /\ b.t = "Infinity"
       THEN (IF a.v = b.v THEN a ELSE NaN)
  ELSE IF a.t = "Infinity" THEN a
  ELSE IF b.t = "Infinity" THEN b
  ELSE RoundRat(Sign(a.v + b.v), Abs(a.v + b.v), 1)

\* -a
fneg(a) ==
  IF ~IsNumber(a) \/ a.t = "NaN" THEN NaN ELSE Val(a.t, -a.v)

\* a - b
fsub(a, b) == fadd(a, fneg(b))

\* a * b
fmul(a, b) ==
  IF ~IsNumber(a) \/ ~IsNumber(b) \/ a.t = "NaN" \/ b.t = "NaN" THEN NaN
  ELSE IF a.t = "Infinity" \/ b.t = "Infinity"
       THEN (IF a.v = 0 \/ b.v = 0 THEN NaN ELSE Inf(SignOf(a) * SignOf(b)))
  ELSE IF a.v = 0 \/ b.v = 0 THEN Num(0)
  ELSE LET x  == Abs(a.v)
           y  == Abs(b.v)
           zx == TrailingZeros(x, F)
           zy == TrailingZeros(y, F - zx)
       IN  RoundRat(Sign(a.v) * Sign(b.v),
                    (x \div 2^zx) * (y \div 2^zy), 2^(F - zx - zy))

\* a / b
fdiv(a, b) ==
  IF ~IsNumber(a) \/ ~IsNumber(b) \/ a.t = "NaN" \/ b.t = "NaN" THEN NaN
  ELSE IF a.t = "Infinity"
       THEN (IF b.t = "Infinity" THEN NaN ELSE Inf(a.v * Sign(b.v)))
  ELSE IF b.t = "Infinity" THEN Num(0)
  ELSE IF b.v = 0 THEN (IF a.v = 0 THEN NaN ELSE Inf(Sign(a.v)))
  ELSE LET y == Abs(b.v)
           z == TrailingZeros(y, F)
       IN  RoundRat(Sign(a.v) * Sign(b.v), Abs(a.v) * 2^(F - z), y \div 2^z)

\* floor(sqrt(n)) for n >= 0: the integer square root.
RECURSIVE ISqrt(_)
ISqrt(n) ==
  IF n < 2 THEN n
  ELSE LET r == 2 * ISqrt(n \div 4)
       IN  IF (r + 1) * (r + 1) <= n THEN r + 1 ELSE r

\* Math.sqrt(a), correctly rounded.  The radicand n * 2^F (the square of the
\* root in units) is scaled by 4^j until its integer root has more than P
\* bits; an inexact root is marked by a trailing half.
fsqrt(a) ==
  IF ~IsNumber(a) \/ a.t = "NaN" THEN NaN
  ELSE IF a.t = "Infinity" THEN (IF a.v > 0 THEN a ELSE NaN)
  ELSE IF a.v < 0 THEN NaN
  ELSE IF a.v = 0 THEN Num(0)
  ELSE LET n     == a.v * 2^F
           bl    == BitLen(n)
           j     == IF bl >= 2 * P + 4 THEN 0 ELSE (2 * P + 5 - bl) \div 2
           big   == n * 4^j
           root  == ISqrt(big)
           exact == root * root = big
       IN  RoundRat(1, 2 * root + (IF exact THEN 0 ELSE 1), 2^(j + 1))

\* Math.abs(a)
fabs(a) ==
  IF ~IsNumber(a) \/ a.t = "NaN" THEN NaN
  ELSE IF a.t = "Infinity" THEN Inf(1) ELSE Num(Abs(a.v))

\* a < b
flt(a, b) ==
  IF ~IsNumber(a) \/ ~IsNumber(b) \/ a.t = "NaN" \/ b.t = "NaN" THEN FALSE
  ELSE IF a.t = "Infinity" THEN a.v < 0 /\ ~(b.t = "Infinity" /\ b.v < 0)
  ELSE IF b.t = "Infinity" THEN b.v > 0
  ELSE a.v < b.v

\* a === b on numbers
feq(a, b) == a.t = b.t /\ a.v = b.v /\ a.t # "NaN"


\* Math.max(a, b) and Math.min(a, b): NaN if either is NaN.
fmax(a, b) ==
  IF ~IsNumber(a) \/ ~IsNumber(b) \/ a.t = "NaN" \/ b.t = "NaN" THEN NaN
  ELSE IF flt(a, b) THEN b ELSE a

fmin(a, b) ==
  IF ~IsNumber(a) \/ ~IsNumber(b) \/ a.t = "NaN" \/ b.t = "NaN" THEN NaN
  ELSE IF flt(b, a) THEN b ELSE a

True == Val("boolean", 1)
False == Val("boolean", 0)
Bool(b) == IF b THEN True ELSE False

(***************************************************************************)
(* The library, src/src/vector2.js.  A vector is a record of its two own   *)
(* properties; the methods are operators on such records, written as the   *)
(* source computes them.                                                   *)
(***************************************************************************)
newVector2(x, y) == [x |-> x, y |-> y]

\* const EPS = 1e-13: about 2^9 units in the last place of 1.0 in binary64;
\* in the model's format 1/8, that is 2^(P-4) units in the last place of 1.0.
EPS == Num(2^(F - 3))

add(this, v) == newVector2(fadd(this.x, v.x), fadd(this.y, v.y))

sub(this, v) == newVector2(fsub(this.x, v.x), fsub(this.y, v.y))

neg(this) == newVector2(fneg(this.x), fneg(this.y))

scale(this, s) == newVector2(fmul(this.x, s), fmul(this.y, s))

prod(this, v) == newVector2(fmul(this.x, v.x), fmul(this.y, v.y))

dot(this, v) == fadd(fmul(this.x, v.x), fmul(this.y, v.y))

cross(this, v) == fsub(fmul(this.x, v.y), fmul(this.y, v.x))

\* perp turning the other way.
perp_cw(this) == newVector2(this.y, fneg(this.x))

perp(this) == newVector2(fneg(this.y), this.x)

projectTo(this, b) ==
  LET bx == b.x
      by == b.y
      t  == fdiv(fadd(fmul(this.x, bx), fmul(this.y, by)),
                 fadd(fmul(bx, bx), fmul(by, by)))
  IN  newVector2(fmul(bx, t), fmul(by, t))

rejectFrom(this, b) ==
  LET bx == b.x
      by == b.y
      t  == fdiv(fadd(fmul(this.x, bx), fmul(this.y, by)),
                 fadd(fmul(bx, bx), fmul(by, by)))
  IN  newVector2(fsub(this.x, fmul(bx, t)), fsub(this.y, fmul(by, t)))

\* reflect without the factor 2: the projection minus the vector.
reflect_half(this, b) ==
  LET bx == b.x
      by == b.y
      t2 == fdiv(fadd(fmul(this.x, bx), fmul(this.y, by)),
                 fadd(fmul(bx, bx), fmul(by, by)))
  IN  newVector2(fsub(fmul(t2, bx), this.x), fsub(fmul(t2, by), this.y))

reflect(this, b) ==
  LET bx == b.x
      by == b.y
      t2 == fdiv(fmul(Num(2 * One), fadd(fmul(this.x, bx), fmul(this.y, by))),
                 fadd(fmul(bx, bx), fmul(by, by)))
  IN  newVector2(fsub(fmul(t2, bx), this.x), fsub(fmul(t2, by), this.y))

\* refract answering null for k = 0 as well.
refract_le(this, normal, eta) ==
  LET d == fadd(fmul(this.x, normal.x), fmul(this.y, normal.y))
      k == fsub(Num(One), fmul(fmul(eta, eta), fsub(Num(One), fmul(d, d))))
      t == fadd(fmul(eta, d), fsqrt(k))
  IN  IF flt(k, Num(0)) \/ feq(k, Num(0))
      THEN [null |-> TRUE, vec |-> newVector2(Null, Null)]
      ELSE [null |-> FALSE,
            vec  |-> newVector2(fsub(fmul(eta, this.x), fmul(t, normal.x)),
                                fsub(fmul(eta, this.y), fmul(t, normal.y)))]

\* The result of refract: null (total internal reflection) or a new vector.
refract(this, normal, eta) ==
  LET d == fadd(fmul(this.x, normal.x), fmul(this.y, normal.y))
      k == fsub(Num(One), fmul(fmul(eta, eta), fsub(Num(One), fmul(d, d))))
      t == fadd(fmul(eta, d), fsqrt(k))
  IN  IF flt(k, Num(0))
      THEN [null |-> TRUE, vec |-> newVector2(Null, Null)]
      ELSE [null |-> FALSE,
            vec  |-> newVector2(fsub(fmul(eta, this.x), fmul(t, normal.x)),
                                fsub(fmul(eta, this.y), fmul(t, normal.y)))]

norm(this) ==
  LET ax == this.x
      ay == this.y
  IN  fsqrt(fadd(fmul(ax, ax), fmul(ay, ay)))

norm2(this) ==
  LET ax == this.x
      ay == this.y
  IN  fadd(fmul(ax, ax), fmul(ay, ay))


\* normalize dividing by the squared length instead of the length.
normalize_nosqrt(this) ==
  LET ax  == this.x
      ay  == this.y
      l2  == fadd(fmul(ax, ax), fmul(ay, ay))
      inv == fdiv(Num(One), l2)
  IN  IF feq(l2, Num(0)) \/ feq(l2, Num(One))
      THEN [self |-> TRUE, vec |-> this]
      ELSE [self |-> FALSE, vec |-> newVector2(fmul(ax, inv), fmul(ay, inv))]

\* normalize with its test for length 1 written as >= 1.
normalize_ge(this) ==
  LET ax  == this.x
      ay  == this.y
      l2  == fadd(fmul(ax, ax), fmul(ay, ay))
      inv == fdiv(Num(One), fsqrt(l2))
  IN  IF feq(l2, Num(0)) \/ ~flt(l2, Num(One))
      THEN [self |-> TRUE, vec |-> this]
      ELSE [self |-> FALSE, vec |-> newVector2(fmul(ax, inv), fmul(ay, inv))]

\* The result of normalize: the receiver itself (self) or a new vector.
normalize(this) ==
  LET ax  == this.x
      ay  == this.y
      l2  == fadd(fmul(ax, ax), fmul(ay, ay))
      inv == fdiv(Num(One), fsqrt(l2))
  IN  IF feq(l2, Num(0)) \/ feq(l2, Num(One))
      THEN [self |-> TRUE, vec |-> this]
      ELSE [self |-> FALSE, vec |-> newVector2(fmul(ax, inv), fmul(ay, inv))]

distance(this, v) ==
  LET dx == fsub(this.x, v.x)
      dy == fsub(this.y, v.y)
  IN  fsqrt(fadd(fmul(dx, dx), fmul(dy, dy)))

\* c and s are Math.cos(ang) and Math.sin(ang).
rotate(this, c, s) ==
  LET ax == this.x
      ay == this.y
  IN  newVector2(fsub(fmul(c, ax), fmul(s, ay)), fadd(fmul(s, ax), fmul(c, ay)))

\* fn is one of Math.max, Math.min, Math.abs (which reads its first argument).
CallFn(fn, a, b) ==
  IF fn = "max" THEN fmax(a, b) ELSE IF fn = "min" THEN fmin(a, b) ELSE fabs(a)

apply(this, fn, v) == newVector2(CallFn(fn, this.x, v.x), CallFn(fn, this.y, v.y))

toArray(this) == <<this.x, this.y>>

clone(this) == newVector2(this.x, this.y)

\* equals without its test for the same instance.
equals_nosame(this, v, same) ==
  flt(fabs(fsub(this.x, v.x)), EPS) /\ flt(fabs(fsub(this.y, v.y)), EPS)

\* same: this === v.
equals(this, v, same) ==
  same \/ (flt(fabs(fsub(this.x, v.x)), EPS) /\ flt(fabs(fsub(this.y, v.y)), EPS))

isParallel(this, v) == flt(fabs(cross(this, v)), EPS)

isUnit(this) ==
  flt(fabs(fsub(fadd(fmul(this.x, this.x), fmul(this.y, this.y)), Num(One))), EPS)

\* lerp with its parameter clamped to [0, 1].
lerp_clamped(this, v, t) ==
  LET ax == this.x
      ay == this.y
      tc == IF flt(Num(One), t) THEN Num(One)
            ELSE IF flt(t, Num(0)) THEN Num(0) ELSE t
  IN  newVector2(fadd(ax, fmul(tc, fsub(v.x, ax))), fadd(ay, fmul(tc, fsub(v.y, ay))))

lerp(this, v, t) ==
  LET ax == this.x
      ay == this.y
  IN  newVector2(fadd(ax, fmul(t, fsub(v.x, ax))), fadd(ay, fmul(t, fsub(v.y, ay))))

\* "(" + x + ", " + y + ")": the two numbers the string is built from.
toString(this) == <<this.x, this.y>>

fromPoints(a, b) == newVector2(fsub(b.x, a.x), fsub(b.y, a.y))

fromBarycentric(A, B, C, u, v) ==
  LET ax == A.x
      ay == A.y
  IN  newVector2(
        fadd(fadd(ax, fmul(fsub(B.x, ax), u)), fmul(fsub(C.x, ax), v)),
        fadd(fadd(ay, fmul(fsub(B.y, ay), u)), fmul(fsub(C.y, ay), v)))

(***************************************************************************)
(* The in-place operations.  They act on the heap h of vectors: this['x']  *)
(* is written before v['y'] is read, which matters when v is the receiver. *)
(***************************************************************************)

\* set copying v['x'] into both properties.
set_xx(h, this, v) ==
  LET h1 == [h EXCEPT ![this].x = h[v].x]
  IN  [h1 EXCEPT ![this].y = h1[v].x]

set(h, this, v) ==
  LET h1 == [h EXCEPT ![this].x = h[v].x]
  IN  [h1 EXCEPT ![this].y = h1[v].y]

add_inplace(h, this, v) ==
  LET h1 == [h EXCEPT ![this].x = fadd(h[this].x, h[v].x)]
  IN  [h1 EXCEPT ![this].y = fadd(h1[this].y, h1[v].y)]

sub_inplace(h, this, v) ==
  LET h1 == [h EXCEPT ![this].x = fsub(h[this].x, h[v].x)]
  IN  [h1 EXCEPT ![this].y = fsub(h1[this].y, h1[v].y)]

neg_inplace(h, this) ==
  LET h1 == [h EXCEPT ![this].x = fneg(h[this].x)]
  IN  [h1 EXCEPT ![this].y = fneg(h1[this].y)]

scale_inplace(h, this, s) ==
  LET h1 == [h EXCEPT ![this].x = fmul(h[this].x, s)]
  IN  [h1 EXCEPT ![this].y = fmul(h1[this].y, s)]


\* prod$ writing the first product into its argument.
prod_inplace_arg(h, this, v) ==
  LET h1 == [h EXCEPT ![v].x = fmul(h[this].x, h[v].x)]
  IN  [h1 EXCEPT ![this].y = fmul(h1[this].y, h1[v].y)]

prod_inplace(h, this, v) ==
  LET h1 == [h EXCEPT ![this].x = fmul(h[this].x, h[v].x)]
  IN  [h1 EXCEPT ![this].y = fmul(h1[this].y, h1[v].y)]

\* normalize$ measuring the receiver again after it has written x.
normalize_inplace_relen(h, this) ==
  LET l2  == fadd(fmul(h[this].x, h[this].x), fmul(h[this].y, h[this].y))
      inv == fdiv(Num(One), fsqrt(l2))
      h1  == [h EXCEPT ![this].x = fmul(h[this].x, inv)]
      l21 == fadd(fmul(h1[this].x, h1[this].x), fmul(h1[this].y, h1[this].y))
  IN  IF feq(l2, Num(0)) \/ feq(l2, Num(One)) THEN h
      ELSE [h1 EXCEPT ![this].y = fmul(h1[this].y, fdiv(Num(One), fsqrt(l21)))]

normalize_inplace(h, this) ==
  LET l2  == fadd(fmul(h[this].x, h[this].x), fmul(h[this].y, h[this].y))
      inv == fdiv(Num(One), fsqrt(l2))
      h1  == [h EXCEPT ![this].x = fmul(h[this].x, inv)]
  IN  IF feq(l2, Num(0)) \/ feq(l2, Num(One)) THEN h
      ELSE [h1 EXCEPT ![this].y = fmul(h1[this].y, inv)]

(***************************************************************************)
(* The older build, src/unnamed/part_000, where it differs.                *)
(***************************************************************************)
\* rejectFrom of the older build with cross(a, b) for cross(b, a).
rejectFrom_000_swapped(this, b) ==
  LET pct == fdiv(fsub(fmul(this.x, b.y), fmul(this.y, b.x)),
                  fadd(fmul(b.x, b.x), fmul(b.y, b.y)))
  IN  newVector2(fmul(fneg(b.y), pct), fmul(b.x, pct))

rejectFrom_000(this, b) ==
  LET pct == fdiv(fsub(fmul(this.y, b.x), fmul(this.x, b.y)),
                  fadd(fmul(b.x, b.x), fmul(b.y, b.y)))
  IN  newVector2(fmul(fneg(b.y), pct), fmul(b.x, pct))

normalize_000(this) ==
  LET l == norm(this)
  IN  IF feq(l, Num(0)) \/ feq(l, Num(One))
      THEN [self |-> TRUE, vec |-> this]
      ELSE [self |-> FALSE, vec |-> newVector2(fdiv(this.x, l), fdiv(this.y, l))]

(***************************************************************************)
(* The constructor.  Its arguments are JavaScript values of any type.  An  *)
(* array or object argument is a reference Val("object", i) to srcs[i], a  *)
(* record [isArray, elems, hasx, x, hasy, y]: an array with its elements,  *)
(* or a plain object with its x and y properties where it has them.        *)
(***************************************************************************)
Array(elems) == [isArray |-> TRUE, elems |-> elems,
                 hasx |-> FALSE, x |-> Undefined, hasy |-> FALSE, y |-> Undefined]
Object(hasx, x, hasy, y) == [isArray |-> FALSE, elems |-> <<>>,
                             hasx |-> hasx, x |-> x, hasy |-> hasy, y |-> y]

\* x[i] for an array x, i counted from 0.
Index(o, i) == IF i < Len(o.elems) THEN o.elems[i + 1] ELSE Undefined
\* x['x'] and x['y'] for an object x (an array has neither property).
GetX(o) == IF o.hasx THEN o.x ELSE Undefined
GetY(o) == IF o.hasy THEN o.y ELSE Undefined

\* typeof x
TypeOf(x) ==
  IF IsNumber(x) THEN "number"
  ELSE IF x.t = "null" THEN "object"
  ELSE x.t

\* Whether x is truthy.
Truthy(x) ==
  ~(x.t \in {"undefined", "null", "NaN"} \/ x = Num(0) \/ x = False \/ x = Val("string", 0))

\* The strings of the model: "" (0), "abc" (1), "2" (2).
StringToNumber(k) == IF k = 0 THEN Num(0) ELSE IF k = 1 THEN NaN ELSE Num(2 * One)

\* ToNumber(x), h the arrays and objects.
ToNumber(x, h) ==
  IF IsNumber(x) THEN x
  ELSE IF x.t = "null" THEN Num(0)
  ELSE IF x.t = "boolean" THEN Num(x.v * One)
  ELSE IF x.t = "string" THEN StringToNumber(x.v)
  ELSE IF x.t = "object" /\ h[x.v].isArray /\ Len(h[x.v].elems) = 0 THEN Num(0)
  ELSE IF x.t = "object" /\ h[x.v].isArray /\ Len(h[x.v].elems) = 1
          /\ IsNumber(h[x.v].elems[1]) THEN h[x.v].elems[1]
  ELSE NaN

\* isNaN(x)
isNaN(x, h) == ToNumber(x, h).t = "NaN"

\* The object o of the constructor before any assignment: it has no own x or
\* y, and reads the prototype's 'x': 0 and 'y': 0.
Prototype == newVector2(Num(0), Num(0))


\* The constructor reading an array from its second element on.
Vector2_shifted(x, y, h) ==
  IF TypeOf(x) = "number" /\ TypeOf(y) = "number" THEN newVector2(x, y)
  ELSE IF Truthy(x) /\ TypeOf(x) = "object"
       THEN (IF h[x.v].isArray
             THEN newVector2(Index(h[x.v], 1), Index(h[x.v], 2))
             ELSE newVector2(GetX(h[x.v]), GetY(h[x.v])))
  ELSE Prototype

\* Vector2(x, y) of src/src/vector2.js: the vector returned.
Vector2(x, y, h) ==
  IF TypeOf(x) = "number" /\ TypeOf(y) = "number" THEN newVector2(x, y)
  ELSE IF Truthy(x) /\ TypeOf(x) = "object"
       THEN (IF h[x.v].isArray
             THEN newVector2(Index(h[x.v], 0), Index(h[x.v], 1))
             ELSE newVector2(GetX(h[x.v]), GetY(h[x.v])))
  ELSE Prototype

\* Vector2(x, y) of src/unnamed/part_000: the vector returned, or a TypeError
\* (x['x'] with x null).
Vector2_000(x, y, h) ==
  IF TypeOf(x) = "object"
  THEN (IF x.t = "null" THEN [throw |-> TRUE, vec |-> Prototype]
        ELSE IF h[x.v].isArray
        THEN [throw |-> FALSE, vec |-> newVector2(Index(h[x.v], 0), Index(h[x.v], 1))]
        ELSE [throw |-> FALSE, vec |-> newVector2(GetX(h[x.v]), GetY(h[x.v]))])
  ELSE IF ~isNaN(x, h) /\ ~isNaN(y, h)
       THEN [throw |-> FALSE, vec |-> newVector2(x, y)]
  ELSE [throw |-> FALSE, vec |-> Prototype]

(***************************************************************************)
(* Bounds and the inputs of the calls                                      *)
(***************************************************************************)
\* Vector2 instances alive at once.
MaxObjs == 3
\* Calls in one run of Spec.
MaxCalls == 2

\* Coordinates of the vectors Spec starts from and constructs.
Coords == {Num(0), Num(One)}
\* Scalar arguments (s, t, eta, u, v).
Scalars == {Num(0), Num(One), Num(2 * One)}
\* (Math.cos(ang), Math.sin(ang)) for the angles passed to rotate: Math.cos
\* and Math.sin are implementation-approximated, the model draws the pair.
CosSin == {<<Num(One), Num(0)>>, <<Num(0), Num(One)>>}
\* Results of Math.atan2 and of Math.random.
Atan2Values == {Num(0), Num(One)}
RandomValues == {Num(0), Num(One \div 2)}
\* The functions passed to apply.
Fns == {"max", "abs"}

VARIABLES
  heap,    \* the Vector2 instances: heap[i] is the vector of identity i
  srcs,    \* the arrays and plain objects passed to the constructor
  last,    \* the last call: operation, receiver, arguments, result
  pre,     \* heap as it was before the last call
  track,   \* the last vector returned by a non-mutating call, while only
           \* in-place operations have been applied to it since
  budget   \* calls left

vars == <<heap, srcs, last, pre, track, budget>>

Ids == DOMAIN heap
Range(f) == {f[i] : i \in DOMAIN f}

Ret(k, id, a, b) == [k |-> k, id |-> id, a |-> a, b |-> b]
\* The call returned the vector of identity id.
RetRef(id) == Ret("ref", id, Undefined, Undefined)
\* The call returned the number, boolean, undefined or null v.
RetVal(v) == Ret("value", 0, v, Undefined)
\* The call returned an array (k = "array") or a string built from pr.
RetPair(k, pr) == Ret(k, 0, pr[1], pr[2])
RetThrow == Ret("throw", 0, Undefined, Undefined)

Call(op, this, args, nums, ret) ==
  [op |-> op, this |-> this, args |-> args, nums |-> nums, ret |-> ret,
   srcs |-> srcs]

NoTrack == [on |-> FALSE, op |-> "", this |-> 0, args |-> <<>>, res |-> 0,
            saved |-> <<>>]


\* A call that writes its result into its receiver instead of a new object.
ReturnNew_reuse(op, this, args, nums, vec) ==
  /\ budget > 0
  /\ Len(heap) < MaxObjs
  /\ heap' = IF this = 0 THEN Append(heap, vec) ELSE [heap EXCEPT ![this] = vec]
  /\ last' = Call(op, this, args, nums,
                  RetRef(IF this = 0 THEN Len(heap) + 1 ELSE this))
  /\ pre' = heap
  /\ track' = [on |-> TRUE, op |-> op, this |-> this, args |-> args,
               res |-> IF this = 0 THEN Len(heap) + 1 ELSE this, saved |-> heap]
  /\ budget' = budget - 1
  /\ UNCHANGED srcs

\* A call that returns a newly created vector vec.
ReturnNew(op, this, args, nums, vec) ==
  /\ budget > 0
  /\ Len(heap) < MaxObjs
  /\ heap' = Append(heap, vec)
  /\ last' = Call(op, this, args, nums, RetRef(Len(heap) + 1))
  /\ pre' = heap
  /\ track' = [on |-> TRUE, op |-> op, this |-> this, args |-> args,
               res |-> Len(heap) + 1, saved |-> heap]
  /\ budget' = budget - 1
  /\ UNCHANGED srcs

\* A call that returns its receiver and writes nothing.
ReturnThis(op, this, args, nums) ==
  /\ budget > 0
  /\ last' = Call(op, this, args, nums, RetRef(this))
  /\ pre' = heap
  /\ track' = [on |-> TRUE, op |-> op, this |-> this, args |-> args,
               res |-> this, saved |-> heap]
  /\ budget' = budget - 1
  /\ UNCHANGED <<heap, srcs>>

\* A call that returns something that is no vector and writes nothing.
ReturnOther(op, this, args, nums, ret) ==
  /\ budget > 0
  /\ last' = Call(op, this, args, nums, ret)
  /\ pre' = heap
  /\ track' = NoTrack
  /\ budget' = budget - 1
  /\ UNCHANGED <<heap, srcs>>

\* A call that writes the receiver's properties: h is the heap it leaves.
Mutating(op, this, args, nums, h, ret) ==
  /\ budget > 0
  /\ heap' = h
  /\ last' = Call(op, this, args, nums, ret)
  /\ pre' = heap
  /\ track' = IF track.on /\ track.res = this THEN track ELSE NoTrack
  /\ budget' = budget - 1
  /\ UNCHANGED srcs

(***************************************************************************)
(* The calls                                                               *)
(***************************************************************************)
Construct(X, Y) ==
  /\ budget > 0
  /\ \E x \in X, y \in Y :
    ReturnNew("Vector2", 0, <<>>, <<x, y>>, Vector2(x, y, srcs))

Construct_000(X, Y) ==
  /\ budget > 0
  /\ \E x \in X, y \in Y :
    LET r == Vector2_000(x, y, srcs)
    IN  IF r.throw THEN ReturnOther("Vector2_000", 0, <<>>, <<x, y>>, RetThrow)
        ELSE ReturnNew("Vector2_000", 0, <<>>, <<x, y>>, r.vec)

Add ==
  /\ budget > 0
  /\ \E t, v \in Ids : ReturnNew("add", t, <<v>>, <<>>, add(heap[t], heap[v]))

Sub ==
  /\ budget > 0
  /\ \E t, v \in Ids : ReturnNew("sub", t, <<v>>, <<>>, sub(heap[t], heap[v]))

Neg ==
  /\ budget > 0
  /\ \E t \in Ids : ReturnNew("neg", t, <<>>, <<>>, neg(heap[t]))

Scale ==
  /\ budget > 0
  /\ \E t \in Ids, s \in Scalars : ReturnNew("scale", t, <<>>, <<s>>, scale(heap[t], s))

Prod ==
  /\ budget > 0
  /\ \E t, v \in Ids : ReturnNew("prod", t, <<v>>, <<>>, prod(heap[t], heap[v]))

Dot ==
  /\ budget > 0
  /\ \E t, v \in Ids : ReturnOther("dot", t, <<v>>, <<>>, RetVal(dot(heap[t], heap[v])))

Cross ==
  /\ budget > 0
  /\ \E t, v \in Ids :
    ReturnOther("cross", t, <<v>>, <<>>, RetVal(cross(heap[t], heap[v])))

Perp ==
  /\ budget > 0
  /\ \E t \in Ids : ReturnNew("perp", t, <<>>, <<>>, perp(heap[t]))

ProjectTo ==
  /\ budget > 0
  /\ \E t, b \in Ids : ReturnNew("projectTo", t, <<b>>, <<>>, projectTo(heap[t], heap[b]))

RejectFrom ==
  /\ budget > 0
  /\ \E t, b \in Ids :
    ReturnNew("rejectFrom", t, <<b>>, <<>>, rejectFrom(heap[t], heap[b]))

RejectFrom_000 ==
  /\ budget > 0
  /\ \E t, b \in Ids :
    ReturnNew("rejectFrom_000", t, <<b>>, <<>>, rejectFrom_000(heap[t], heap[b]))

Reflect ==
  /\ budget > 0
  /\ \E t, b \in Ids : ReturnNew("reflect", t, <<b>>, <<>>, reflect(heap[t], heap[b]))

Refract ==
  /\ budget > 0
  /\ \E t, n \in Ids, eta \in Scalars :
    LET r == refract(heap[t], heap[n], eta)
    IN  IF r.null THEN ReturnOther("refract", t, <<n>>, <<eta>>, RetVal(Null))
        ELSE ReturnNew("refract", t, <<n>>, <<eta>>, r.vec)

Angle ==
  /\ budget > 0
  /\ \E t \in Ids, a \in Atan2Values : ReturnOther("angle", t, <<>>, <<>>, RetVal(a))

Norm ==
  /\ budget > 0
  /\ \E t \in Ids : ReturnOther("norm", t, <<>>, <<>>, RetVal(norm(heap[t])))

Norm2 ==
  /\ budget > 0
  /\ \E t \in Ids : ReturnOther("norm2", t, <<>>, <<>>, RetVal(norm2(heap[t])))

Normalize ==
  /\ budget > 0
  /\ \E t \in Ids :
    LET r == normalize(heap[t])
    IN  IF r.self THEN ReturnThis("normalize", t, <<>>, <<>>)
        ELSE ReturnNew("normalize", t, <<>>, <<>>, r.vec)

Normalize_000 ==
  /\ budget > 0
  /\ \E t \in Ids :
    LET r == normalize_000(heap[t])
    IN  IF r.self THEN ReturnThis("normalize_000", t, <<>>, <<>>)
        ELSE ReturnNew("normalize_000", t, <<>>, <<>>, r.vec)

Distance ==
  /\ budget > 0
  /\ \E t, v \in Ids :
    ReturnOther("distance", t, <<v>>, <<>>, RetVal(distance(heap[t], heap[v])))

Set ==
  /\ budget > 0
  /\ \E t, v \in Ids :
    Mutating("set", t, <<v>>, <<>>, set(heap, t, v), RetVal(Undefined))

Rotate ==
  /\ budget > 0
  /\ \E t \in Ids, cs \in CosSin :
    ReturnNew("rotate", t, <<>>, <<cs[1], cs[2]>>, rotate(heap[t], cs[1], cs[2]))

\* v = 0: apply is called without its second argument, which defaults to the
\* plain object { x: 0, y: 0 }.
Apply ==
  /\ budget > 0
  /\ \E t \in Ids, v \in Ids \cup {0}, fn \in Fns :
    ReturnNew("apply", t, <<v>>, <<Val("function", 0)>>,
              apply(heap[t], fn, IF v = 0 THEN Prototype ELSE heap[v]))

ToArray ==
  /\ budget > 0
  /\ \E t \in Ids :
    ReturnOther("toArray", t, <<>>, <<>>, RetPair("array", toArray(heap[t])))

Clone ==
  /\ budget > 0
  /\ \E t \in Ids : ReturnNew("clone", t, <<>>, <<>>, clone(heap[t]))

Equals ==
  /\ budget > 0
  /\ \E t, v \in Ids :
    ReturnOther("equals", t, <<v>>, <<>>,
                RetVal(Bool(equals(heap[t], heap[v], t = v))))

IsParallel ==
  /\ budget > 0
  /\ \E t, v \in Ids :
    ReturnOther("isParallel", t, <<v>>, <<>>,
                RetVal(Bool(isParallel(heap[t], heap[v]))))

IsUnit ==
  /\ budget > 0
  /\ \E t \in Ids : ReturnOther("isUnit", t, <<>>, <<>>, RetVal(Bool(isUnit(heap[t]))))

Lerp ==
  /\ budget > 0
  /\ \E t, v \in Ids, s \in Scalars :
    ReturnNew("lerp", t, <<v>>, <<s>>, lerp(heap[t], heap[v], s))

ToString ==
  /\ budget > 0
  /\ \E t \in Ids :
    ReturnOther("toString", t, <<>>, <<>>, RetPair("string", toString(heap[t])))

Random ==
  /\ budget > 0
  /\ \E x, y \in RandomValues : ReturnNew("random", 0, <<>>, <<>>, newVector2(x, y))

FromPoints ==
  /\ budget > 0
  /\ \E a, b \in Ids :
    ReturnNew("fromPoints", 0, <<a, b>>, <<>>, fromPoints(heap[a], heap[b]))

FromBarycentric ==
  /\ budget > 0
  /\ \E A, B, C \in Ids, u, v \in Scalars :
    ReturnNew("fromBarycentric", 0, <<A, B, C>>, <<u, v>>,
              fromBarycentric(heap[A], heap[B], heap[C], u, v))

AddInPlace ==
  /\ budget > 0
  /\ \E t, v \in Ids : Mutating("add$", t, <<v>>, <<>>, add_inplace(heap, t, v), RetRef(t))

SubInPlace ==
  /\ budget > 0
  /\ \E t, v \in Ids : Mutating("sub$", t, <<v>>, <<>>, sub_inplace(heap, t, v), RetRef(t))

NegInPlace ==
  /\ budget > 0
  /\ \E t \in Ids : Mutating("neg$", t, <<>>, <<>>, neg_inplace(heap, t), RetRef(t))

ScaleInPlace ==
  /\ budget > 0
  /\ \E t \in Ids, s \in Scalars :
    Mutating("scale$", t, <<>>, <<s>>, scale_inplace(heap, t, s), RetRef(t))

ProdInPlace ==
  /\ budget > 0
  /\ \E t, v \in Ids :
    Mutating("prod$", t, <<v>>, <<>>, prod_inplace(heap, t, v), RetRef(t))

NormalizeInPlace ==
  /\ budget > 0
  /\ \E t \in Ids :
    Mutating("normalize$", t, <<>>, <<>>, normalize_inplace(heap, t), RetRef(t))

NoCall == Call("", 0, <<>>, <<>>, RetVal(Undefined))

\* Spec starts from two constructed vectors.
Init ==
  /\ heap \in {<<newVector2(a, b), newVector2(c, d)>> : a, b, c, d \in Coords}
  /\ srcs = <<>>
  /\ last = [NoCall EXCEPT !.srcs = <<>>]
  /\ pre = heap
  /\ track = NoTrack
  /\ budget = MaxCalls

Next ==
  \/ Construct(Coords, Coords)
  \/ Add \/ Sub \/ Neg \/ Scale \/ Prod \/ Dot \/ Cross \/ Perp
  \/ ProjectTo \/ RejectFrom \/ RejectFrom_000 \/ Reflect \/ Refract
  \/ Angle \/ Norm \/ Norm2 \/ Normalize \/ Normalize_000 \/ Distance
  \/ Set \/ Rotate \/ Apply \/ ToArray \/ Clone \/ Equals \/ IsParallel
  \/ IsUnit \/ Lerp \/ ToString \/ Random \/ FromPoints \/ FromBarycentric
  \/ AddInPlace \/ SubInPlace \/ NegInPlace \/ ScaleInPlace \/ ProdInPlace
  \/ NormalizeInPlace

Spec == Init /\ [][Next]_vars

(***************************************************************************)
(* SpecNum: one call on two vectors whose coordinates range over the       *)
(* number format: zero, the least subnormal, numbers whose squares are     *)
(* subnormal, EPS and its half, 1 and its neighbour, numbers whose squares *)
(* overflow, negative numbers, NaN and Infinity.                           *)
(***************************************************************************)
NumCalls == 1
\* The least normal number, 2^(1 - Emax), in units.
MinNormal == 2^(P - 1)
\* The distance from 1 to the next number above it.
Ulp == 2^(F - P + 1)
\* A number whose square is between a half and three halves of the unit.
Tiny == 2^(F \div 2) + 1
\* A number whose square overflows.
Big == 2^(Emax - 1) * One

Wide ==
  {Num(0), Num(1), Num(Tiny), Num(EPS.v \div 2), Num(EPS.v), Num(One),
   Num(One + Ulp), Num(3 * One), Num(-4 * One), Num(Big), NaN, Inf(1)}
Steps == {Num(0), Num(EPS.v \div 2), Num(EPS.v)}
Plain == {Num(0), Num(Tiny), Num(One), Num(-(3 * One) \div 2)}
\* The second vector: near the first, or one of a few plain vectors.
Seconds(a) ==
  {newVector2(fadd(a.x, dx), fadd(a.y, dy)) : dx, dy \in Steps}
    \cup {newVector2(x, y) : x, y \in Plain}

InitNum ==
  /\ heap \in UNION {{<<a, b>> : b \in Seconds(a)} :
                       a \in {newVector2(x, y) : x, y \in Wide}}
  /\ srcs = <<>>
  /\ last = [NoCall EXCEPT !.srcs = <<>>]
  /\ pre = heap
  /\ track = NoTrack
  /\ budget = NumCalls

SpecNum == InitNum /\ [][Next]_vars

(***************************************************************************)
(* SpecCtor: the constructor on arguments of every type, and the caller    *)
(* writing to an array or object it has passed.                            *)
(***************************************************************************)
\* The arrays and objects of SpecCtor: [], [1], [1, 2], [1, 2, 0], {},
\* {x: 1}, {y: 2}, {x: 1, y: 2}.
Sources ==
  << Array(<<>>), Array(<<Num(One)>>), Array(<<Num(One), Num(2 * One)>>),
     Array(<<Num(One), Num(2 * One), Num(0)>>),
     Object(FALSE, Undefined, FALSE, Undefined),
     Object(TRUE, Num(One), FALSE, Undefined),
     Object(FALSE, Undefined, TRUE, Num(2 * One)),
     Object(TRUE, Num(One), TRUE, Num(2 * One)) >>

Refs == {Val("object", i) : i \in DOMAIN Sources}

\* First and second arguments of the constructor; undefined is also the
\* argument that is not passed.
CtorX ==
  {Undefined, Null, Num(0), Num(One), NaN, Inf(1), True, False,
   Val("string", 0), Val("string", 1), Val("string", 2), Val("function", 0)}
  \cup Refs
CtorY ==
  {Undefined, Null, Num(2 * One), NaN, True, Val("string", 2),
   Val("function", 0), Val("object", 1)}

\* The caller assigns w to x[0] or x[1] of an array it holds, or to the x or
\* y of an object.
Write(o, slot, w) ==
  IF o.isArray
  THEN (IF slot <= Len(o.elems) THEN [o EXCEPT !.elems[slot] = w] ELSE o)
  ELSE (IF slot = 1 THEN [o EXCEPT !.hasx = TRUE, !.x = w]
        ELSE [o EXCEPT !.hasy = TRUE, !.y = w])

Mutate ==
  /\ budget > 0
  /\ \E i \in DOMAIN srcs, slot \in {1, 2} :
       /\ srcs' = [srcs EXCEPT ![i] = Write(srcs[i], slot, Num(3 * One))]
       /\ srcs' # srcs
  /\ budget' = budget - 1
  /\ UNCHANGED <<heap, last, pre, track>>

InitCtor ==
  /\ heap = <<>>
  /\ srcs = Sources
  /\ last = [NoCall EXCEPT !.srcs = Sources]
  /\ pre = heap
  /\ track = NoTrack
  /\ budget = MaxCalls

NextCtor ==
  \/ Construct(CtorX, CtorY)
  \/ Construct_000(CtorX, CtorY)
  \/ Mutate

SpecCtor == InitCtor /\ [][NextCtor]_vars

(***************************************************************************)
(* Claims                                                                  *)
(***************************************************************************)
\* The receiver and the argument vectors of a call.
Operands(c) == ({c.this} \cup Range(c.args)) \ {0}

NonMutatingOps ==
  {"add", "sub", "neg", "scale", "prod", "dot", "cross", "perp", "projectTo",
   "rejectFrom", "rejectFrom_000", "reflect", "refract", "angle", "norm",
   "norm2", "normalize", "normalize_000", "distance", "rotate", "apply",
   "toArray", "clone", "equals", "isParallel", "isUnit", "lerp", "toString",
   "fromPoints", "fromBarycentric"}

\* C1: a non-mutating operation leaves the x and y of its receiver and of
\* every argument vector (of every vector that existed before the call)
\* as they were.  The invariant holds after every call of every run, so it
\* holds along any chain of such calls.
Thm_C1 ==
  last.op \in NonMutatingOps =>
    /\ \A i \in DOMAIN pre : heap[i] = pre[i]
    /\ Operands(last) \subseteq DOMAIN pre

\* Two non-mutating calls in a row, the second with two distinct operands and
\* a result that differs from both.
Wit_C1 ==
  /\ budget = 0
  /\ last.op = "reflect"
  /\ last.this # last.args[1]
  /\ Len(heap) = Len(pre) + 1
  /\ heap[Len(heap)] # pre[last.this]
  /\ heap[Len(heap)] # pre[last.args[1]]

\* The non-mutating operations that return a vector.
VectorOps ==
  {"add", "sub", "neg", "scale", "prod", "perp", "projectTo", "rejectFrom",
   "rejectFrom_000", "reflect", "refract", "normalize", "normalize_000",
   "rotate", "apply", "lerp", "clone"}

\* The vector a tracked call returned is none of its operands, and its
\* operands have the coordinates they had when it returned.
Independent ==
  /\ track.res \notin Operands(track)
  /\ track.res \notin DOMAIN track.saved
  /\ \A i \in Operands(track) : heap[i] = track.saved[i]

\* C2 as stated: every vector-returning non-mutating operation, normalize
\* included, returns a new instance, so that in-place operations applied to
\* the result leave the receiver and the arguments unchanged.
Orig_C2 == (track.on /\ track.op \in VectorOps) => Independent

\* normalize returns its receiver: the squared length is exactly 0 or 1
\* (src/src/vector2.js), or norm() is exactly 0 or 1 (part_000).
ReturnsSelf(op, v) ==
  \/ op = "normalize" /\ (feq(norm2(v), Num(0)) \/ feq(norm2(v), Num(One)))
  \/ op = "normalize_000" /\ (feq(norm(v), Num(0)) \/ feq(norm(v), Num(One)))

\* C2, amended: every vector-returning non-mutating operation other than a
\* normalize that returns its receiver returns a new instance, and in-place
\* operations applied to that result leave the receiver and the arguments
\* unchanged.
Thm_C2 ==
  (track.on /\ track.op \in VectorOps
     /\ ~ReturnsSelf(track.op, track.saved[track.this])) => Independent

\* An in-place operation has changed the vector that add returned from two
\* distinct operands.
Wit_C2 ==
  /\ track.on
  /\ track.op = "add"
  /\ track.this # track.args[1]
  /\ last.op \in {"set", "add$", "sub$", "neg$", "scale$", "prod$", "normalize$"}
  /\ last.this = track.res
  /\ heap[track.res] # pre[track.res]

InPlaceOps == {"add$", "sub$", "neg$", "scale$", "prod$", "normalize$"}

\* C3: each in-place operation returns the instance it was called on,
\* creates no vector, and changes no vector other than its receiver.
Thm_C3 ==
  last.op \in InPlaceOps =>
    /\ last.ret = RetRef(last.this)
    /\ DOMAIN heap = DOMAIN pre
    /\ \A i \in DOMAIN pre : i # last.this => heap[i] = pre[i]

\* prod$ with an argument that is another instance has changed its receiver.
Wit_C3 ==
  /\ last.op = "prod$"
  /\ last.args[1] # last.this
  /\ heap[last.this] # pre[last.this]
  /\ heap[last.args[1]] = pre[last.args[1]]

\* What set(v) does to the heap: the receiver has v's coordinates, v and
\* every other vector are as before, no vector is created.
SetEffect ==
  /\ heap[last.this].x = pre[last.args[1]].x
  /\ heap[last.this].y = pre[last.args[1]].y
  /\ DOMAIN heap = DOMAIN pre
  /\ \A i \in DOMAIN pre : i # last.this => heap[i] = pre[i]

\* C8 as stated: set(v) copies v into the receiver and returns the receiver.
Orig_C8 == last.op = "set" => (SetEffect /\ last.ret = RetRef(last.this))

\* C8, amended: set(v) copies v into the receiver, changes nothing else,
\* creates no vector, and returns undefined (it has no return statement), so
\* unlike the `$` operations it cannot be chained.
Thm_C8 == last.op = "set" => (SetEffect /\ last.ret = RetVal(Undefined))

\* set has copied the coordinates of another instance over different ones.
Wit_C8 ==
  /\ last.op = "set"
  /\ last.args[1] # last.this
  /\ pre[last.this].x # pre[last.args[1]].x
  /\ pre[last.this].y # pre[last.args[1]].y
  /\ heap[last.this] = heap[last.args[1]]


\* The arguments of the last constructor call, and the arrays and objects
\* as they were when it was made.
ArgX == last.nums[1]
ArgY == last.nums[2]
Then == last.srcs

\* The three input shapes the constructor recognizes.
TwoNumbers == TypeOf(ArgX) = "number" /\ TypeOf(ArgY) = "number"
IsPair ==
  ArgX.t = "object" /\ Then[ArgX.v].isArray /\ Len(Then[ArgX.v].elems) >= 2
HasXY ==
  ArgX.t = "object" /\ ~Then[ArgX.v].isArray
    /\ Then[ArgX.v].hasx /\ Then[ArgX.v].hasy

\* The constructors of the two builds.
Constructors == {"Vector2", "Vector2_000"}

\* C5 as stated, of the constructor of either build: it raises no error, and
\* an input that is none of the three shapes gives (0, 0).
Orig_C5 ==
  last.op \in Constructors =>
    /\ last.ret.k = "ref"
    /\ ~(TwoNumbers \/ IsPair \/ HasXY) =>
         heap[last.ret.id] = newVector2(Num(0), Num(0))

\* C6 as stated, of the constructor of either build: x and y of the
\* constructed vector are numbers, and an array with fewer than two elements
\* or an object that lacks x or y leaves the missing coordinate 0.
Orig_C6 ==
  (last.op \in Constructors /\ last.ret.k = "ref") =>
    /\ IsNumber(heap[last.ret.id].x)
    /\ IsNumber(heap[last.ret.id].y)
    /\ (ArgX.t = "object" /\ Then[ArgX.v].isArray
          /\ Len(Then[ArgX.v].elems) < 2) => heap[last.ret.id].y = Num(0)
    /\ (ArgX.t = "object" /\ ~Then[ArgX.v].isArray /\ ~Then[ArgX.v].hasx) =>
         heap[last.ret.id].x = Num(0)

Recv == pre[last.this]
Arg1 == pre[last.args[1]]

\* C4: after an in-place call the receiver's coordinates are those of the
\* vector the non-mutating counterpart returns on the state before the
\* call, for every receiver and argument of the number format, the argument
\* being the receiver included.
Thm_C4 ==
  /\ last.op = "add$" => heap[last.this] = add(Recv, Arg1)
  /\ last.op = "sub$" => heap[last.this] = sub(Recv, Arg1)
  /\ last.op = "neg$" => heap[last.this] = neg(Recv)
  /\ last.op = "scale$" => heap[last.this] = scale(Recv, last.nums[1])
  /\ last.op = "prod$" => heap[last.this] = prod(Recv, Arg1)
  /\ last.op = "normalize$" => heap[last.this] = normalize(Recv).vec

\* a.prod$(a) has been called on a vector it changed, both coordinates
\* finite and different.
Wit_C4 ==
  /\ last.op = "prod$"
  /\ last.args[1] = last.this
  /\ IsFinite(Recv.x) /\ IsFinite(Recv.y)
  /\ heap[last.this].x # Recv.x
  /\ heap[last.this].y # Recv.y
  /\ heap[last.this].x # heap[last.this].y

\* norm() of w is 1 within EPS.
UnitLength(w) == flt(fabs(fsub(norm(w), Num(One))), EPS)

\* w points where a points: no coordinate changes sign, and the larger
\* coordinate stays the larger.
SameDirection(a, w) ==
  /\ IsFinite(w.x) /\ IsFinite(w.y)
  /\ w.x.v = 0 \/ Sign(w.x.v) = SignOf(a.x)
  /\ w.y.v = 0 \/ Sign(w.y.v) = SignOf(a.y)
  /\ flt(fabs(a.x), fabs(a.y)) => ~flt(fabs(w.y), fabs(w.x))
  /\ flt(fabs(a.y), fabs(a.x)) => ~flt(fabs(w.x), fabs(w.y))

\* The last call returned a vector that did not exist before it, and wrote
\* to no other.
ReturnedNew ==
  /\ last.ret.k = "ref"
  /\ last.ret.id \notin DOMAIN pre
  /\ last.ret.id \in DOMAIN heap
  /\ \A i \in DOMAIN pre : heap[i] = pre[i]

ReturnedThis == last.ret = RetRef(last.this) /\ heap = pre

\* C9 as stated, of both builds and of receivers whose coordinates are
\* finite numbers: normalize returns its receiver unchanged when the squared
\* length is exactly 0 or 1, and for every other receiver a new vector of
\* the same direction whose norm() is 1 within EPS.
Orig_C9 ==
  (last.op \in {"normalize", "normalize_000"}
     /\ IsFinite(Recv.x) /\ IsFinite(Recv.y)) =>
    IF feq(norm2(Recv), Num(0)) \/ feq(norm2(Recv), Num(One))
    THEN ReturnedThis
    ELSE /\ ReturnedNew
         /\ UnitLength(heap[last.ret.id])
         /\ SameDirection(Recv, heap[last.ret.id])

\* Both coordinates are finite, and the squared length neither overflows
\* nor falls below the least normal number.
Regular(a) ==
  /\ IsFinite(a.x) /\ IsFinite(a.y)
  /\ IsFinite(norm2(a))
  /\ norm2(a).v >= MinNormal

\* C9, amended: normalize of src/src/vector2.js returns its receiver
\* unchanged exactly when the computed squared length is 0 or 1, that of
\* src/unnamed/part_000 exactly when the computed norm() is 0 or 1; every
\* other call returns a new vector, which has the receiver's direction and
\* a norm() within EPS of 1 when the receiver is Regular.
Thm_C9 ==
  /\ last.op = "normalize" =>
       IF feq(norm2(Recv), Num(0)) \/ feq(norm2(Recv), Num(One))
       THEN ReturnedThis ELSE ReturnedNew
  /\ last.op = "normalize_000" =>
       IF feq(norm(Recv), Num(0)) \/ feq(norm(Recv), Num(One))
       THEN ReturnedThis ELSE ReturnedNew
  /\ (last.op \in {"normalize", "normalize_000"} /\ last.ret.id # last.this
        /\ Regular(Recv)) =>
       /\ UnitLength(heap[last.ret.id])
       /\ SameDirection(Recv, heap[last.ret.id])

\* normalize has returned a new vector, different from its Regular receiver
\* in both coordinates, neither of which is 0.
Wit_C9 ==
  /\ last.op = "normalize"
  /\ Regular(Recv)
  /\ ReturnedNew
  /\ heap[last.ret.id].x # Recv.x
  /\ heap[last.ret.id].y # Recv.y
  /\ heap[last.ret.id].x.v # 0
  /\ heap[last.ret.id].y.v # 0

\* C10: equals returns true exactly when the argument is the receiver or
\* both computed coordinate differences are smaller than EPS in absolute
\* value; a difference of half of EPS in one coordinate is equal, a
\* difference of EPS or more is not.
Thm_C10 ==
  last.op = "equals" =>
    /\ last.ret \in {RetVal(True), RetVal(False)}
    /\ last.ret = RetVal(True) <=>
         \/ last.args[1] = last.this
         \/ /\ flt(fabs(fsub(Recv.x, Arg1.x)), EPS)
            /\ flt(fabs(fsub(Recv.y, Arg1.y)), EPS)
    /\ (IsFinite(Recv.x) /\ Arg1.x = Recv.x /\ IsFinite(Recv.y)
          /\ IsFinite(Arg1.y) /\ 2 * Abs(Arg1.y.v - Recv.y.v) <= EPS.v) =>
         last.ret = RetVal(True)
    /\ (last.args[1] # last.this /\ IsFinite(Recv.y) /\ IsFinite(Arg1.y)
          /\ Abs(Arg1.y.v - Recv.y.v) >= EPS.v) =>
         last.ret = RetVal(False)
    /\ (last.args[1] # last.this /\ IsFinite(Recv.x) /\ IsFinite(Arg1.x)
          /\ Abs(Arg1.x.v - Recv.x.v) >= EPS.v) =>
         last.ret = RetVal(False)

\* equals has answered false for two vectors that differ by EPS in y alone.
Wit_C10 ==
  /\ last.op = "equals"
  /\ last.args[1] # last.this
  /\ Arg1.x = Recv.x
  /\ IsFinite(Recv.x) /\ IsFinite(Recv.y) /\ IsFinite(Arg1.y)
  /\ Arg1.y.v - Recv.y.v = EPS.v
  /\ last.ret = RetVal(False)


\* The scalar argument of the last call, and for refract the computed
\* k = 1 - eta^2 * (1 - dot^2).
Eta == last.nums[1]
K ==
  fsub(Num(One),
       fmul(fmul(Eta, Eta),
            fsub(Num(One), fmul(dot(Recv, Arg1), dot(Recv, Arg1)))))

\* C11: refract returns null exactly when the computed k is smaller than 0,
\* and writes nothing; otherwise, k = 0 and a k that is NaN included, it
\* returns the new vector eta * d - (eta * dot + sqrt(k)) * normal.  With
\* dot = 0 and eta > 1 it returns null.
Thm_C11 ==
  last.op = "refract" =>
    /\ last.ret.k # "throw"
    /\ last.ret = RetVal(Null) <=> flt(K, Num(0))
    /\ last.ret = RetVal(Null) => heap = pre
    /\ ~flt(K, Num(0)) =>
         /\ ReturnedNew
         /\ heap[last.ret.id] =
              sub(scale(Recv, Eta),
                  scale(Arg1, fadd(fmul(Eta, dot(Recv, Arg1)), fsqrt(K))))
    /\ (feq(dot(Recv, Arg1), Num(0)) /\ flt(Num(One), Eta)) =>
         last.ret = RetVal(Null)

\* refract of a unit vector across a unit normal at right angles to it, with
\* eta = 2, has returned null.
Wit_C11 ==
  /\ last.op = "refract"
  /\ feq(norm2(Recv), Num(One)) /\ feq(norm2(Arg1), Num(One))
  /\ feq(dot(Recv, Arg1), Num(0))
  /\ Eta = Num(2 * One)
  /\ last.ret = RetVal(Null)


\* The two builds' rejectFrom.
Rejections == {"rejectFrom", "rejectFrom_000"}

AllFinite(a, b) ==
  IsFinite(a.x) /\ IsFinite(a.y) /\ IsFinite(b.x) /\ IsFinite(b.y)

\* a.projectTo(b).add(r).equals(a), r being what the last call returned.
SumIsReceiver ==
  equals(add(projectTo(Recv, Arg1), heap[last.ret.id]), Recv, FALSE)

\* C12 as stated, of finite vectors: for every a and every b other than
\* (0, 0), a.projectTo(b).add(a.rejectFrom(b)) equals a, in both builds.
Orig_C12 ==
  (last.op \in Rejections /\ AllFinite(Recv, Arg1)
     /\ Arg1 # newVector2(Num(0), Num(0))) => SumIsReceiver

\* No coordinate of a is larger than 1 in magnitude, the coordinates of b
\* are finite, and the computed b.b neither overflows nor falls below the
\* least normal number.
Moderate(a, b) ==
  /\ AllFinite(a, b)
  /\ Abs(a.x.v) <= One /\ Abs(a.y.v) <= One
  /\ IsFinite(dot(b, b))
  /\ dot(b, b).v >= MinNormal

\* C12, amended: rejectFrom of src/src/vector2.js returns exactly a minus
\* a.projectTo(b), and in both builds a.projectTo(b).add(a.rejectFrom(b))
\* equals a within EPS when a and b are Moderate.
Thm_C12 ==
  /\ last.op \in Rejections => ReturnedNew
  /\ last.op = "rejectFrom" =>
       heap[last.ret.id] = sub(Recv, projectTo(Recv, Arg1))
  /\ (last.op \in Rejections /\ Moderate(Recv, Arg1)) => SumIsReceiver

\* rejectFrom of the older build has been called on Moderate vectors a and
\* b that are neither parallel nor at right angles, a with two different
\* coordinates.
Wit_C12 ==
  /\ last.op = "rejectFrom_000"
  /\ Moderate(Recv, Arg1)
  /\ Recv.x # Recv.y
  /\ ~feq(dot(Recv, Arg1), Num(0))
  /\ ~feq(cross(Recv, Arg1), Num(0))
  /\ heap[last.ret.id].x.v # 0 /\ heap[last.ret.id].y.v # 0


\* a.reflect(b).reflect(b).equals(a), a.reflect(b) being what the last call
\* returned.
TwiceIsReceiver == equals(reflect(heap[last.ret.id], Arg1), Recv, FALSE)

\* C13 as stated, of finite vectors: for every a and every b other than
\* (0, 0), a.reflect(b).reflect(b) equals a.
Orig_C13 ==
  (last.op = "reflect" /\ AllFinite(Recv, Arg1)
     /\ Arg1 # newVector2(Num(0), Num(0))) => TwiceIsReceiver

\* C13, amended: reflect returns a new vector that is 2 * a.projectTo(b)
\* minus a within EPS, and a.reflect(b).reflect(b) equals a within EPS, when
\* a and b are Moderate; b need not be of unit length.
Thm_C13 ==
  /\ last.op = "reflect" => ReturnedNew
  /\ (last.op = "reflect" /\ Moderate(Recv, Arg1)) =>
       /\ equals(heap[last.ret.id],
                 sub(scale(projectTo(Recv, Arg1), Num(2 * One)), Recv), FALSE)
       /\ TwiceIsReceiver

\* reflect has been called on Moderate vectors a and b, b not of unit
\* length and neither parallel to a nor at right angles to it, and has
\* returned a vector other than a.
Wit_C13 ==
  /\ last.op = "reflect"
  /\ Moderate(Recv, Arg1)
  /\ ~feq(norm2(Arg1), Num(One))
  /\ ~feq(dot(Recv, Arg1), Num(0))
  /\ ~feq(cross(Recv, Arg1), Num(0))
  /\ heap[last.ret.id] # Recv


\* What the last call, a perp, returned.
PerpOfRecv == heap[last.ret.id]

\* C14 as stated, of vectors with finite coordinates: perp returns
\* (-a.y, a.x), a.dot(a.perp()) is 0 and a.cross(a.perp()) is a.norm2().
Orig_C14 ==
  (last.op = "perp" /\ IsFinite(Recv.x) /\ IsFinite(Recv.y)) =>
    /\ PerpOfRecv = newVector2(fneg(Recv.y), Recv.x)
    /\ dot(Recv, PerpOfRecv) = Num(0)
    /\ cross(Recv, PerpOfRecv) = norm2(Recv)

\* C14, amended: perp returns the new vector (-a.y, a.x); for finite
\* coordinates a.cross(a.perp()) is exactly a.norm2(), Infinity included,
\* and a.dot(a.perp()) is exactly 0 when the product x * y does not
\* overflow.
Thm_C14 ==
  last.op = "perp" =>
    /\ ReturnedNew
    /\ PerpOfRecv = newVector2(fneg(Recv.y), Recv.x)
    /\ (IsFinite(Recv.x) /\ IsFinite(Recv.y)) =>
         /\ cross(Recv, PerpOfRecv) = norm2(Recv)
         /\ IsFinite(fmul(Recv.x, Recv.y)) => dot(Recv, PerpOfRecv) = Num(0)
         /\ ~IsFinite(fmul(Recv.x, Recv.y)) => dot(Recv, PerpOfRecv) = NaN

\* perp has been called on a vector of two different finite coordinates,
\* neither of them 0, whose product is rounded and does not overflow.
Wit_C14 ==
  /\ last.op = "perp"
  /\ IsFinite(Recv.x) /\ IsFinite(Recv.y)
  /\ Recv.x.v # 0 /\ Recv.y.v # 0
  /\ Abs(Recv.x.v) # Abs(Recv.y.v)
  /\ IsFinite(fmul(Recv.x, Recv.y))
  /\ fmul(Recv.x, Recv.y).v * One # Recv.x.v * Recv.y.v
  /\ PerpOfRecv = newVector2(fneg(Recv.y), Recv.x)


\* What the last call, a lerp, returned, and twice its argument minus its
\* receiver.
Lerped == heap[last.ret.id]
Extrapolated == sub(scale(Arg1, Num(2 * One)), Recv)

\* C15 as stated, of vectors with finite coordinates, "has the coordinates
\* of" read as equal within EPS: a.lerp(b, 0) is a, a.lerp(b, 1) is b and
\* a.lerp(b, 2) is 2b - a.
Orig_C15 ==
  (last.op = "lerp" /\ AllFinite(Recv, Arg1)) =>
    /\ last.ret.k = "ref"
    /\ Eta = Num(0) => equals(Lerped, Recv, FALSE)
    /\ Eta = Num(One) => equals(Lerped, Arg1, FALSE)
    /\ Eta = Num(2 * One) => equals(Lerped, Extrapolated, FALSE)

\* No coordinate of a or b is larger than 1 in magnitude.
Small(a, b) ==
  /\ AllFinite(a, b)
  /\ Abs(a.x.v) <= One /\ Abs(a.y.v) <= One
  /\ Abs(b.x.v) <= One /\ Abs(b.y.v) <= One

\* C15, amended: lerp raises no error and returns a new vector.  For finite
\* coordinates whose differences b - a do not overflow, a.lerp(b, 0) has
\* exactly the coordinates of a; a coordinate of a.lerp(b, 1) is exactly
\* that of b when the difference of the two is computed without rounding;
\* and when a and b are Small, a.lerp(b, 1) equals b and a.lerp(b, 2) equals
\* 2b - a within EPS (the parameter is not clamped).
Thm_C15 ==
  last.op = "lerp" =>
    /\ ReturnedNew
    /\ (AllFinite(Recv, Arg1) /\ IsFinite(fsub(Arg1.x, Recv.x))
          /\ IsFinite(fsub(Arg1.y, Recv.y))) =>
         /\ Eta = Num(0) => Lerped = Recv
         /\ (Eta = Num(One) /\ fsub(Arg1.x, Recv.x).v = Arg1.x.v - Recv.x.v) =>
              Lerped.x = Arg1.x
         /\ (Eta = Num(One) /\ fsub(Arg1.y, Recv.y).v = Arg1.y.v - Recv.y.v) =>
              Lerped.y = Arg1.y
    /\ (Small(Recv, Arg1) /\ Eta = Num(One)) => equals(Lerped, Arg1, FALSE)
    /\ (Small(Recv, Arg1) /\ Eta = Num(2 * One)) =>
         equals(Lerped, Extrapolated, FALSE)

\* a.lerp(b, 2) has been called on Small vectors that differ in both
\* coordinates, and has returned a vector that is neither a nor b.
Wit_C15 ==
  /\ last.op = "lerp"
  /\ Eta = Num(2 * One)
  /\ Small(Recv, Arg1)
  /\ Recv.x # Arg1.x /\ Recv.y # Arg1.y
  /\ ~equals(Lerped, Arg1, FALSE)
  /\ ~equals(Lerped, Recv, FALSE)

=============================================================================
